---------------------------- MODULE Spec2Model ----------------------------
(* State-machine model of carlwgoodwin/usgs-retrieval:                     *)
(*   src/retrieval_utils.py                        (granule pipeline)      *)
(*   src/modules/retrieval_utils_appeearsTest.py   (multi-region variant)  *)
(*                                                                         *)
(* Every HTTP round trip is one step; the remote service's answer is the   *)
(* step's input, drawn from a small set of bodies.  Time stamps are text   *)
(* in the program: a stamp is modelled as a wall-clock minute plus a UTC   *)
(* offset, and pd.to_datetime turns it into an instant (minutes, UTC).     *)
EXTENDS Integers, Sequences, FiniteSets, TLC

VARIABLES
    \* ---- match_granules (src/retrieval_utils.py:109-146)
    df_granules,     \* input table, a sequence of granule records
    param_codes,     \* input list of parameter codes
    index,           \* position of the row the outer loop is at
    pcode,           \* position in param_codes of the next code to try
    closest_result,  \* running best row of the current granule, or None
    closest_time,    \* running best distance of the current granule
    results,         \* accumulated output rows
    iv_calls,        \* time-series requests issued, with the answer received
    mg_pc,           \* "idle" | "rows" | "codes" | "done" | "error"
    mg_ret,          \* returned table, NotReturned until the call returns
    \* ---- get_all_site_granules / get_site_granules (src/retrieval_utils.py:26-82)
    site_list,       \* input table of sites
    site_i,          \* position of the site the loop is at
    concept_id,      \* collection concept id of the running get_site_granules
    page_num,        \* page_num of the running get_site_granules
    granule_arr,     \* granule_arr of the running get_site_granules
    all_granules,    \* accumulated records of all sites
    cmr_calls,       \* catalog requests issued, with the answer received
    gf_out,          \* lines printed
    gf_pc,           \* "idle" | "sites" | "pages" | "done" | "error"
    gf_ret,          \* returned list, NotReturned until the call returns
    \* ---- the link filter of get_site_granules (src/retrieval_utils.py:51)
    links,           \* the links array of one granule entry
    granule_urls,    \* the filtered urls, NotReturned before the filter ran
    \* ---- get_param_sites (src/modules/retrieval_utils_appeearsTest.py:6-32)
    state_codes,     \* input list of region codes
    site_types,      \* input set of accepted site types
    state_i,         \* position of the region the loop is at
    dfs,             \* per-region tables collected so far
    site_calls,      \* site-service requests issued, with the answer received
    sl_out,          \* lines printed
    sl_pc,           \* "idle" | "states" | "done"
    sl_ret           \* returned table, NotReturned until the call returns

matchVars == <<df_granules, param_codes, index, pcode, closest_result,
               closest_time, results, iv_calls, mg_pc, mg_ret>>

granuleVars == <<site_list, site_i, concept_id, page_num, granule_arr,
                 all_granules, cmr_calls, gf_out, gf_pc, gf_ret>>

linkVars == <<links, granule_urls>>

siteVars == <<state_codes, site_types, state_i, dfs, site_calls, sl_out,
              sl_pc, sl_ret>>

vars == <<matchVars, granuleVars, linkVars, siteVars>>

-----------------------------------------------------------------------------
(* Values shared by the stages *)

None == <<>>
NotReturned == [returned |-> FALSE]
Returned(v) == [returned |-> TRUE, value |-> v]

Abs(x) == IF x < 0 THEN -x ELSE x

Range(s) == {s[k] : k \in 1..Len(s)}

Stamp(w, o) == [wall |-> w, off |-> o]
NotAvailable == [text |-> "N/A"]

\* pd.to_datetime on a stamp: the instant it denotes.  "N/A" does not parse.
Parses(s) == "wall" \in DOMAIN s
to_datetime(s) == s.wall - s.off

\* pd.Timedelta.max, in minutes
TimedeltaMax == 153722867

\* default of the time_window parameter, in minutes
time_window == 30

\* strftime('%Y-%m-%dT%H:%M:%SZ') of an instant: UTC wall clock, suffix Z
strftime(t) == Stamp(t, 0)

-----------------------------------------------------------------------------
(* get_granule_results *)

\* The time-series service's JSON: value -> timeSeries -> values[0] -> value
Reading(v, s) == [value |-> v, dateTime |-> s]
Series(unit, readings) ==
    [variable |-> [unit |-> [unitCode |-> unit]],
     values   |-> << [value |-> readings] >>]
Ok(ts) == [status_code |-> 200, data |-> [value |-> [timeSeries |-> ts]]]

RECURSIVE SeriesResults(_, _)
SeriesResults(ts, k) ==
    IF k > Len(ts.values[1].value) THEN <<>>
    ELSE << [result      |-> ts.values[1].value[k].value,
             result_unit |-> ts.variable.unit.unitCode,
             result_time |-> ts.values[1].value[k].dateTime] >>
         \o SeriesResults(ts, k + 1)

RECURSIVE AllSeriesResults(_, _)
AllSeriesResults(tss, k) ==
    IF k > Len(tss) THEN <<>>
    ELSE SeriesResults(tss[k], 1) \o AllSeriesResults(tss, k + 1)

get_granule_results(response) ==
    IF response.status_code = 200
    THEN IF "value" \in DOMAIN response.data
            /\ "timeSeries" \in DOMAIN response.data.value
         THEN AllSeriesResults(response.data.value.timeSeries, 1)
         ELSE <<>>
    ELSE <<>>

\* the request get_granule_results builds for (site, code, granule instant)
IvRequest(site_no, param_cd, granule_time) ==
    [sites       |-> site_no,
     parameterCd |-> param_cd,
     startDT     |-> strftime(granule_time - time_window),
     endDT       |-> strftime(granule_time + time_window)]

-----------------------------------------------------------------------------
(* match_granules *)

MatchRow(row, result) ==
    [site_no      |-> row.site_no,
     station_nm   |-> row.station_nm,
     site_lat     |-> row.site_lat,
     site_lon     |-> row.site_lon,
     granule_time |-> to_datetime(row.datetime),
     granule_urls |-> row.granule_urls,
     result       |-> result.result,
     result_unit  |-> result.result_unit,
     result_time  |-> result.result_time]

\* line 129 with "<=" in place of "<"
CloserOrEqual(time_between, best) == time_between <= best

\* line 129
Closer(time_between, best) == time_between < best

\* lines 126-141: the scan of one code's result_data
RECURSIVE ScanResults(_, _, _, _)
ScanResults(result_data, k, row, best) ==
    IF k > Len(result_data) THEN best
    ELSE LET result       == result_data[k]
             result_time  == to_datetime(result.result_time)
             time_between == Abs(result_time - to_datetime(row.datetime))
         IN  ScanResults(result_data, k + 1, row,
                 IF Closer(time_between, best.closest_time)
                 THEN [closest_time   |-> time_between,
                       closest_result |-> MatchRow(row, result)]
                 ELSE best)

\* line 142 taken as always true
AlwaysTruthy(x) == TRUE

\* line 142: truth value of None or of a dict
Truthy(x) == DOMAIN x # {}


-----------------------------------------------------------------------------
(* Inputs of match_granules and the answers of the time-series service *)

\* longest param_codes list tried
MaxCodes == 2

CodeOrder == <<"00065", "00060", "00010", "00095">>
ParamCodeLists == {SubSeq(CodeOrder, 1, n) : n \in 0..MaxCodes}

Granule(site, stamp) ==
    [site_no      |-> site,
     station_nm   |-> "Mississippi River at Baton Rouge",
     site_lat     |-> "30.0",
     site_lon     |-> "-90.0",
     granule_urls |-> <<"https://host/EMIT_L2A_RFL.nc">>,
     datetime     |-> stamp]

GranuleA  == Granule("07374000", Stamp(1000, 0))
GranuleB  == Granule("07374000", Stamp(2000, 0))
GranuleNA == Granule("07374000", NotAvailable)

GranuleTables ==
    { <<>>, <<GranuleA>>, <<GranuleA, GranuleB>>,
      <<GranuleA, GranuleNA>>, <<GranuleNA, GranuleA>> }

\* a reading stamped in local time (UTC-5) d minutes after instant t
Local(t, d) == Stamp(t + d - 300, -300)
\* a reading stamped in UTC d minutes after instant t
Utc(t, d) == Stamp(t + d, 0)

\* what the time-series service may answer to a request around instant t
IvResponses(t) ==
    { [status_code |-> 404, data |-> [message |-> "Not Found"]],
      [status_code |-> 200, data |-> [name |-> "ns1:timeSeriesResponseType"]],
      [status_code |-> 200, data |-> [value |-> [queryInfo |-> "q"]]],
      Ok(<< Series("ft", <<>>) >>),
      Ok(<< Series("ft", << Reading("4.10", Local(t, -20)),
                            Reading("4.20", Local(t, 5)) >>) >>),
      Ok(<< Series("ft", << Reading("4.00", Local(t, -5)) >>) >>),
      Ok(<< Series("ft3/s", << Reading("900", Utc(t, 5)) >>),
            Series("ft",    << Reading("4.30", Local(t, -5)),
                               Reading("4.40", Local(t, 2)) >>) >>) }

-----------------------------------------------------------------------------
(* match_granules, one step per row fetched and per time-series request *)

InitMatchVars ==
    /\ df_granules \in GranuleTables
    /\ param_codes \in ParamCodeLists
    /\ index = 1
    /\ pcode = 1
    /\ closest_result = None
    /\ closest_time = TimedeltaMax
    /\ results = <<>>
    /\ iv_calls = <<>>
    /\ mg_pc = "rows"
    /\ mg_ret = NotReturned

IdleMatchVars ==
    /\ df_granules = <<>>
    /\ param_codes = <<>>
    /\ index = 1
    /\ pcode = 1
    /\ closest_result = None
    /\ closest_time = TimedeltaMax
    /\ results = <<>>
    /\ iv_calls = <<>>
    /\ mg_pc = "idle"
    /\ mg_ret = NotReturned

\* lines 112-120: the loop takes the next row and resets the running best
MG_NextRow ==
    /\ mg_pc = "rows"
    /\ index <= Len(df_granules)
    /\ Parses(df_granules[index].datetime)
    /\ closest_result' = None
    /\ closest_time' = TimedeltaMax
    /\ pcode' = 1
    /\ mg_pc' = "codes"
    /\ UNCHANGED <<df_granules, param_codes, index, results, iv_calls, mg_ret>>
    /\ UNCHANGED <<granuleVars, linkVars, siteVars>>

\* line 117: pd.to_datetime raises on a datetime that is no time stamp
MG_BadDatetime ==
    /\ mg_pc = "rows"
    /\ index <= Len(df_granules)
    /\ ~Parses(df_granules[index].datetime)
    /\ mg_pc' = "error"
    /\ UNCHANGED <<df_granules, param_codes, index, pcode, closest_result,
                   closest_time, results, iv_calls, mg_ret>>
    /\ UNCHANGED <<granuleVars, linkVars, siteVars>>

\* lines 122-144: one pass of the parameter-code loop
MG_TryCode ==
    /\ mg_pc = "codes"
    /\ pcode <= Len(param_codes)
    /\ LET row          == df_granules[index]
           granule_time == to_datetime(row.datetime)
           param_cd     == param_codes[pcode]
       IN  \E response \in IvResponses(granule_time) :
             LET result_data == get_granule_results(response)
                 best == ScanResults(result_data, 1, row,
                             [closest_time   |-> closest_time,
                              closest_result |-> closest_result])
             IN  /\ closest_time' = best.closest_time
                 /\ closest_result' = best.closest_result
                 /\ results' = IF Truthy(best.closest_result)
                               THEN Append(results, best.closest_result)
                               ELSE results
                 /\ iv_calls' = Append(iv_calls,
                        [index    |-> index,
                         request  |-> IvRequest(row.site_no, param_cd, granule_time),
                         response |-> response])
    /\ pcode' = pcode + 1
    /\ UNCHANGED <<df_granules, param_codes, index, mg_pc, mg_ret>>
    /\ UNCHANGED <<granuleVars, linkVars, siteVars>>

\* line 122 exhausted: back to the row loop
MG_EndRow ==
    /\ mg_pc = "codes"
    /\ pcode > Len(param_codes)
    /\ index' = index + 1
    /\ mg_pc' = "rows"
    /\ UNCHANGED <<df_granules, param_codes, pcode, closest_result,
                   closest_time, results, iv_calls, mg_ret>>
    /\ UNCHANGED <<granuleVars, linkVars, siteVars>>

\* line 146
MG_Return ==
    /\ mg_pc = "rows"
    /\ index > Len(df_granules)
    /\ mg_ret' = Returned(results)
    /\ mg_pc' = "done"
    /\ UNCHANGED <<df_granules, param_codes, index, pcode, closest_result,
                   closest_time, results, iv_calls>>
    /\ UNCHANGED <<granuleVars, linkVars, siteVars>>

NextMatch ==
    \/ MG_NextRow
    \/ MG_BadDatetime
    \/ MG_TryCode
    \/ MG_EndRow
    \/ MG_Return

-----------------------------------------------------------------------------
(* Properties of match_granules *)

IsNullRow(r) == DOMAIN r = {}

\* positions in results of the rows that belong to input granule i
RowsOf(i) ==
    { k \in 1..Len(results) :
        /\ ~IsNullRow(results[k])
        /\ Parses(df_granules[i].datetime)
        /\ results[k].site_no = df_granules[i].site_no
        /\ results[k].granule_time = to_datetime(df_granules[i].datetime) }

\* the time-series calls issued for input granule i, in order
CallsOf(i) == SelectSeq(iv_calls, LAMBDA c : c.index = i)

RECURSIVE CandidatesIn(_, _)
CandidatesIn(calls, k) ==
    IF k > Len(calls) THEN <<>>
    ELSE get_granule_results(calls[k].response) \o CandidatesIn(calls, k + 1)

\* every candidate reading returned for granule i, in encounter order
CandidatesOf(i) == CandidatesIn(CallsOf(i), 1)

Distance(stamp, instant) == Abs(to_datetime(stamp) - instant)

(* C1: match_granules emits exactly one row per input granule that has at
   least one candidate reading, whatever the number of parameter codes. *)
C1_OneRowPerGranule ==
    mg_pc = "done" =>
        \A i \in 1..Len(df_granules) :
            Len(CandidatesOf(i)) >= 1 => Cardinality(RowsOf(i)) = 1

(* C2: every emitted row is at least as close to its granule's time as every
   candidate returned for that granule across all parameter codes. *)
C2_RowIsClosestOverall ==
    mg_pc = "done" =>
        \A i \in 1..Len(df_granules) : \A k \in RowsOf(i) :
            \A c \in Range(CandidatesOf(i)) :
                Distance(results[k].result_time, results[k].granule_time)
                    <= Distance(c.result_time, results[k].granule_time)

(* C3: a granule for which every parameter code returned an empty list gets
   no row at all (no null placeholder either), does not stop the run, and
   every following granule is still queried for every parameter code. *)
C3_NoRowWithoutCandidates ==
    /\ \A k \in 1..Len(results) : ~IsNullRow(results[k])
    /\ \A i \in 1..Len(df_granules) :
          Len(CandidatesOf(i)) = 0 => RowsOf(i) = {}
    /\ mg_pc = "error" => ~Parses(df_granules[index].datetime)
    /\ mg_pc = "done" =>
          \A i \in 1..Len(df_granules) : Len(CallsOf(i)) = Len(param_codes)

\* a run that finished: granule 1 was answered 404 and a body without keys
\* and got no row, granule 2 was matched afterwards
C3_Witness ==
    /\ mg_pc = "done"
    /\ Len(df_granules) = 2
    /\ Len(CallsOf(1)) = 2
    /\ CallsOf(1)[1].response.status_code = 404
    /\ CallsOf(1)[2].response.status_code = 200
    /\ Len(CandidatesOf(1)) = 0
    /\ RowsOf(1) = {}
    /\ RowsOf(2) # {}

\* the first candidate, in encounter order, at the least distance
FirstClosest(cs, row) ==
    IF cs = <<>> THEN None
    ELSE LET D(k) == Distance(cs[k].result_time, to_datetime(row.datetime))
             first == CHOOSE k \in 1..Len(cs) :
                        \A j \in 1..Len(cs) :
                            /\ j < k => D(j) > D(k)
                            /\ j >= k => D(j) >= D(k)
         IN  MatchRow(row, cs[first])

(* C4: the running best is replaced only by a strictly closer candidate, so
   among candidates at equal distance the first one in iteration order
   (code order, then series order, then value order) stays selected. *)
C4_FirstClosestWins ==
    mg_pc = "codes" =>
        /\ closest_result = FirstClosest(CandidatesOf(index), df_granules[index])
        /\ Truthy(closest_result) =>
              closest_time = Distance(closest_result.result_time,
                                      closest_result.granule_time)

\* two codes tried; the second returned a reading exactly as far away as the
\* first code's best, and the first code's reading is still the selected one
C4_Witness ==
    /\ mg_pc = "codes"
    /\ Len(CallsOf(index)) = 2
    /\ Truthy(closest_result)
    /\ LET first  == get_granule_results(CallsOf(index)[1].response)
           second == get_granule_results(CallsOf(index)[2].response)
       IN  /\ \E a \in Range(first) :
                 /\ closest_result.result = a.result
                 /\ closest_result.result_time = a.result_time
           /\ \E b \in Range(second) :
                 /\ Distance(b.result_time, closest_result.granule_time) = closest_time
                 /\ b.result_time # closest_result.result_time

-----------------------------------------------------------------------------
(* Text: a string is the sequence of its characters *)

Contains(str, pat) ==
    \E k \in 1..(Len(str) - Len(pat) + 1) :
        SubSeq(str, k, k + Len(pat) - 1) = pat

StartsWith(str, pat) ==
    Len(pat) <= Len(str) /\ SubSeq(str, 1, Len(pat)) = pat

EndsWith(str, pat) ==
    Len(pat) <= Len(str)
    /\ SubSeq(str, Len(str) - Len(pat) + 1, Len(str)) = pat

txt_https == <<"h", "t", "t", "p", "s">>
txt_http  == <<"h", "t", "t", "p">>
txt_s3    == <<"s", "3">>
txt_nc    == <<".", "n", "c">>
txt_dmrpp == <<".", "d", "m", "r", "p", "p">>
txt_png   == <<".", "p", "n", "g">>
txt_md5   == <<".", "m", "d", "5">>
txt_colon == <<":", "/", "/">>
txt_host  == <<"d", "/">>
txt_name  == <<"E", "M", "I", "T">>
txt_dir   == <<"h", "t", "t", "p", "s", "/">>

-----------------------------------------------------------------------------
(* get_site_granules, line 51: the link filter *)

\* line 51: the condition of the comprehension
Keeps(href) ==
    /\ Contains(href, txt_https)
    /\ Contains(href, txt_nc)
    /\ ~Contains(href, txt_dmrpp)

RECURSIVE FilterLinks(_, _)
FilterLinks(ls, k) ==
    IF k > Len(ls) THEN <<>>
    ELSE (IF Keeps(ls[k].href) THEN <<ls[k].href>> ELSE <<>>)
         \o FilterLinks(ls, k + 1)

\* longest links array tried
MaxLinks == 2

Hrefs ==
    { scheme \o txt_colon \o txt_host \o dir \o txt_name \o ext :
        scheme \in {txt_https, txt_http, txt_s3},
        dir    \in {<<>>, txt_dir},
        ext    \in {txt_nc, txt_nc \o txt_dmrpp, txt_nc \o txt_md5, txt_png} }

LinkArrays ==
    UNION { [1..n -> {[href |-> h] : h \in Hrefs}] : n \in 0..MaxLinks }

InitLinkVars ==
    /\ links \in LinkArrays
    /\ granule_urls = NotReturned

IdleLinkVars ==
    /\ links = <<>>
    /\ granule_urls = NotReturned

\* line 51 applied to one entry's links
LK_Filter ==
    /\ granule_urls = NotReturned
    /\ granule_urls' = Returned(FilterLinks(links, 1))
    /\ UNCHANGED links
    /\ UNCHANGED <<matchVars, granuleVars, siteVars>>

NextLinks == LK_Filter

-----------------------------------------------------------------------------
(* get_site_granules and get_all_site_granules *)

doi == "10.5067/EMIT/EMITL2ARFL.001"

page_size == 2000

\* line 30 taking the last entry instead of entry [0]
LastEntryId(body) == body.feed.entry[Len(body.feed.entry)].id

\* line 30: ['feed']['entry'][0]['id']
FirstEntryId(body) == body.feed.entry[1].id

\* lines 37-43
cmr_param(cid, pnum, temporal_str, site_lat, site_lon) ==
    [collection_concept_id |-> cid,
     page_size             |-> page_size,
     page_num              |-> pnum,
     temporal              |-> temporal_str,
     point                 |-> <<site_lon, ",", site_lat>>]

\* line 52: g.get('time_start', 'N/A')
TimeStart(g) == IF "time_start" \in DOMAIN g THEN g.time_start ELSE NotAvailable

\* lines 54-61
GranuleRecord(site, g) ==
    [site_no      |-> site.site_no,
     station_nm   |-> site.station_nm,
     site_lat     |-> site.dec_lat_va,
     site_lon     |-> site.dec_long_va,
     granule_urls |-> FilterLinks(g.links, 1),
     datetime     |-> TimeStart(g)]

\* lines 50-61: the records of one page
RECURSIVE PageRecords(_, _, _)
PageRecords(site, granules, k) ==
    IF k > Len(granules) THEN <<>>
    ELSE <<GranuleRecord(site, granules[k])>> \o PageRecords(site, granules, k + 1)

\* line 63 not advancing the page
SamePage(pnum) == pnum

\* line 63
NextPage(pnum) == pnum + 1

\* line 79 overwriting instead of extending
Overwrite(all, site_granules) == site_granules

\* line 79: all_granules.extend(site_granules)
Extend(all, site_granules) == all \o site_granules

NoGranulesMessage(site_no) == [text |-> "No granules found for site", site_no |-> site_no]

-----------------------------------------------------------------------------
(* Inputs of get_all_site_granules and the answers of the catalog service *)

\* most non-empty pages the catalog holds for one site
MaxPages == 2

SiteX == [site_no |-> "07374000", station_nm |-> "Mississippi River at Baton Rouge",
          dec_lat_va |-> "30.0", dec_long_va |-> "-90.0"]
SiteY == [site_no |-> "08012000", station_nm |-> "Nezpique Bayou near Basile",
          dec_lat_va |-> "30.5", dec_long_va |-> "-92.6"]

SiteLists == { <<>>, <<SiteX>>, <<SiteX, SiteY>> }

TemporalStr == "2023-01-01T00:00:00Z,2023-12-31T23:59:59Z"

HrefData   == txt_https \o txt_colon \o txt_host \o txt_name \o txt_nc
HrefDmrpp  == txt_https \o txt_colon \o txt_host \o txt_name \o txt_nc \o txt_dmrpp
HrefS3     == txt_s3 \o txt_colon \o txt_host \o txt_name \o txt_nc
HrefBrowse == txt_https \o txt_colon \o txt_host \o txt_name \o txt_png

EntryFull ==
    [time_start |-> Stamp(1000, 0),
     links |-> << [href |-> HrefS3], [href |-> HrefData], [href |-> HrefDmrpp] >>]
EntryBare ==
    [links |-> << [href |-> HrefBrowse] >>]

Feed(entries) == [status_code |-> 200, body |-> [feed |-> [entry |-> entries]]]
CmrError == [status_code |-> 500, body |-> [errors |-> <<"Internal Server Error">>]]

\* answers to collections.json?doi=...
LookupResponses ==
    { CmrError,
      Feed(<<>>),
      Feed(<< [id |-> "C2408750690-LPCLOUD"] >>),
      Feed(<< [id |-> "C2408009906-LPCLOUD"], [id |-> "C2408750690-LPCLOUD"] >>) }

NonEmptyPages == { <<EntryFull>>, <<EntryBare, EntryFull>>, <<EntryFull, EntryBare>> }

\* answers to granules.json for page pnum: past MaxPages the catalog is exhausted
SearchResponses(pnum) ==
    {CmrError, Feed(<<>>)}
    \cup (IF pnum <= MaxPages THEN {Feed(p) : p \in NonEmptyPages} ELSE {})

InitGranuleVars ==
    /\ site_list \in SiteLists
    /\ site_i = 1
    /\ concept_id = None
    /\ page_num = 1
    /\ granule_arr = <<>>
    /\ all_granules = <<>>
    /\ cmr_calls = <<>>
    /\ gf_out = <<>>
    /\ gf_pc = "sites"
    /\ gf_ret = NotReturned

IdleGranuleVars ==
    /\ site_list = <<>>
    /\ site_i = 1
    /\ concept_id = None
    /\ page_num = 1
    /\ granule_arr = <<>>
    /\ all_granules = <<>>
    /\ cmr_calls = <<>>
    /\ gf_out = <<>>
    /\ gf_pc = "idle"
    /\ gf_ret = NotReturned

LookupCall(response) ==
    [site_i |-> site_i, url |-> "collections.json", request |-> [doi |-> doi],
     response |-> response]

SearchCall(request, response) ==
    [site_i |-> site_i, url |-> "granules.json", request |-> request,
     response |-> response]

\* lines 73-78 and 27-34: the loop calls get_site_granules, which resolves the id
GF_Lookup ==
    /\ gf_pc = "sites"
    /\ site_i <= Len(site_list)
    /\ \E response \in LookupResponses :
          /\ "feed" \in DOMAIN response.body
          /\ response.body.feed.entry # <<>>
          /\ concept_id' = FirstEntryId(response.body)
          /\ cmr_calls' = Append(cmr_calls, LookupCall(response))
    /\ page_num' = 1
    /\ granule_arr' = <<>>
    /\ gf_pc' = "pages"
    /\ UNCHANGED <<site_list, site_i, all_granules, gf_out, gf_ret>>
    /\ UNCHANGED <<matchVars, linkVars, siteVars>>

\* line 30: ['feed'] of a body without a feed raises KeyError, entry[0] of an
\* empty entry list raises IndexError
GF_LookupFails ==
    /\ gf_pc = "sites"
    /\ site_i <= Len(site_list)
    /\ \E response \in LookupResponses :
          /\ ("feed" \in DOMAIN response.body => response.body.feed.entry = <<>>)
          /\ cmr_calls' = Append(cmr_calls, LookupCall(response))
    /\ gf_pc' = "error"
    /\ UNCHANGED <<site_list, site_i, concept_id, page_num, granule_arr,
                   all_granules, gf_out, gf_ret>>
    /\ UNCHANGED <<matchVars, linkVars, siteVars>>

\* lines 36-63: a page with entries
GF_Page ==
    /\ gf_pc = "pages"
    /\ LET site == site_list[site_i]
           request == cmr_param(concept_id, page_num, TemporalStr,
                                site.dec_lat_va, site.dec_long_va)
       IN  \E response \in SearchResponses(page_num) :
             /\ "feed" \in DOMAIN response.body
             /\ response.body.feed.entry # <<>>
             /\ granule_arr' = granule_arr
                                 \o PageRecords(site, response.body.feed.entry, 1)
             /\ cmr_calls' = Append(cmr_calls, SearchCall(request, response))
    /\ page_num' = NextPage(page_num)
    /\ UNCHANGED <<site_list, site_i, concept_id, all_granules, gf_out, gf_pc, gf_ret>>
    /\ UNCHANGED <<matchVars, linkVars, siteVars>>

\* lines 36-47 and 64-68, then 79: the empty page ends the site
GF_LastPage ==
    /\ gf_pc = "pages"
    /\ LET site == site_list[site_i]
           request == cmr_param(concept_id, page_num, TemporalStr,
                                site.dec_lat_va, site.dec_long_va)
       IN  \E response \in SearchResponses(page_num) :
             /\ "feed" \in DOMAIN response.body
             /\ response.body.feed.entry = <<>>
             /\ gf_out' = IF granule_arr = <<>>
                          THEN Append(gf_out, NoGranulesMessage(site.site_no))
                          ELSE gf_out
             /\ cmr_calls' = Append(cmr_calls, SearchCall(request, response))
    /\ all_granules' = Extend(all_granules, granule_arr)
    /\ site_i' = site_i + 1
    /\ gf_pc' = "sites"
    /\ UNCHANGED <<site_list, concept_id, page_num, granule_arr, gf_ret>>
    /\ UNCHANGED <<matchVars, linkVars, siteVars>>

\* line 47: ['feed'] of a body without a feed raises KeyError
GF_PageFails ==
    /\ gf_pc = "pages"
    /\ LET site == site_list[site_i]
           request == cmr_param(concept_id, page_num, TemporalStr,
                                site.dec_lat_va, site.dec_long_va)
       IN  \E response \in SearchResponses(page_num) :
             /\ "feed" \notin DOMAIN response.body
             /\ cmr_calls' = Append(cmr_calls, SearchCall(request, response))
    /\ gf_pc' = "error"
    /\ UNCHANGED <<site_list, site_i, concept_id, page_num, granule_arr,
                   all_granules, gf_out, gf_ret>>
    /\ UNCHANGED <<matchVars, linkVars, siteVars>>

\* line 82
GF_Return ==
    /\ gf_pc = "sites"
    /\ site_i > Len(site_list)
    /\ gf_ret' = Returned(all_granules)
    /\ gf_pc' = "done"
    /\ UNCHANGED <<site_list, site_i, concept_id, page_num, granule_arr,
                   all_granules, cmr_calls, gf_out>>
    /\ UNCHANGED <<matchVars, linkVars, siteVars>>

NextGranules ==
    \/ GF_Lookup
    \/ GF_LookupFails
    \/ GF_Page
    \/ GF_LastPage
    \/ GF_PageFails
    \/ GF_Return

-----------------------------------------------------------------------------
(* get_param_sites over several regions *)
(* A line of the tab-delimited body is the sequence of its pieces: words,  *)
(* the tab "\t", blanks " " and the comment marker "#".  A cell is the     *)
(* sequence of pieces between two tabs.                                     *)

Tab == "\t"

\* line 15: line.startswith('#')
IsComment(line) == line # <<>> /\ line[1] = "#"

\* line 15: line.strip() is non-empty
HasText(line) == \E k \in 1..Len(line) : line[k] \notin {" ", Tab}

\* line 15
RECURSIVE DataLines(_, _)
DataLines(lines, k) ==
    IF k > Len(lines) THEN <<>>
    ELSE (IF ~IsComment(lines[k]) /\ HasText(lines[k]) THEN <<lines[k]>> ELSE <<>>)
         \o DataLines(lines, k + 1)

\* line.split('\t'): cur is the cell being read
RECURSIVE Split(_, _, _)
Split(line, k, cur) ==
    IF k > Len(line) THEN <<cur>>
    ELSE IF line[k] = Tab THEN <<cur>> \o Split(line, k + 1, <<>>)
    ELSE Split(line, k + 1, Append(cur, line[k]))

\* lines 18-20: pd.DataFrame(rows from data_lines[2:], columns=headers)
DataFrame(data_lines) ==
    [columns |-> Split(data_lines[1], 1, <<>>),
     rows    |-> [k \in 1..(Len(data_lines) - 2) |-> Split(data_lines[k + 2], 1, <<>>)]]

Column(df, name) == CHOOSE c \in 1..Len(df.columns) : df.columns[c] = <<name>>

\* line 22: df[df['site_tp_cd'].isin(site_types)]
FilterTypes(df, types) ==
    [columns |-> df.columns,
     rows    |-> SelectSeq(df.rows,
                    LAMBDA r : r[Column(df, "site_tp_cd")] \in types)]

\* line 23: df[['site_no', 'station_nm', 'dec_lat_va', 'dec_long_va']]
Project(df) ==
    [k \in 1..Len(df.rows) |->
        [site_no     |-> df.rows[k][Column(df, "site_no")],
         station_nm  |-> df.rows[k][Column(df, "station_nm")],
         dec_lat_va  |-> df.rows[k][Column(df, "dec_lat_va")],
         dec_long_va |-> df.rows[k][Column(df, "dec_long_va")]]]

\* lines 13-23: what one region's response adds to dfs
RegionTables(response, types) ==
    IF response.status_code = 200
    THEN LET data_lines == DataLines(response.text, 1)
         IN  IF data_lines # <<>>
             THEN LET df == DataFrame(data_lines)
                  IN  IF df.rows # <<>>
                      THEN << Project(FilterTypes(df, types)) >>
                      ELSE <<>>
             ELSE <<>>
    ELSE <<>>

\* line 27: pd.concat(dfs, ignore_index=True)
RECURSIVE Concat(_, _)
Concat(tables, k) ==
    IF k > Len(tables) THEN <<>> ELSE tables[k] \o Concat(tables, k + 1)

CountMessage(n) == [text |-> "count", n |-> n]
NoSitesMessage == [text |-> "No sites found for any states"]

-----------------------------------------------------------------------------
(* Inputs of get_param_sites and the answers of the site service *)

RECURSIVE Tabbed(_, _)
Tabbed(cells, k) ==
    IF k > Len(cells) THEN <<>>
    ELSE (IF k > 1 THEN <<Tab>> ELSE <<>>) \o <<cells[k]>> \o Tabbed(cells, k + 1)

RdbComment == <<"#", " ", "US Geological Survey">>
RdbHeader ==
    Tabbed(<<"agency_cd", "site_no", "station_nm", "site_tp_cd",
             "dec_lat_va", "dec_long_va">>, 1)
RdbUnits == Tabbed(<<"5s", "15s", "50s", "7s", "16s", "16s">>, 1)
RdbRow(state_code, n, tp) ==
    << "USGS", Tab, state_code, n, Tab, "Station", " ", n, Tab, tp, Tab,
       "30.0", Tab, "-90.0" >>

StateCodeLists == { <<"LA">>, <<"LA", "TX">>, <<"TX", "LA", "MS">> }
SiteTypeSets == { {<<"ST">>} }

SiteResponses(state_code) ==
    { [status_code |-> 503, text |-> <<>>],
      [status_code |-> 200, text |-> <<RdbComment, <<" ">>, RdbComment>>],
      [status_code |-> 200, text |-> <<RdbComment, RdbHeader, RdbUnits>>],
      [status_code |-> 200,
       text |-> <<RdbComment, RdbHeader, RdbUnits, RdbRow(state_code, "01", "LK")>>],
      [status_code |-> 200,
       text |-> <<RdbComment, RdbComment, RdbHeader, RdbUnits,
                  RdbRow(state_code, "01", "ST"),
                  RdbRow(state_code, "02", "ST"),
                  RdbRow(state_code, "03", "ST")>>],
      [status_code |-> 200,
       text |-> <<RdbComment, RdbHeader, RdbUnits,
                  RdbRow(state_code, "04", "ST"),
                  RdbRow(state_code, "05", "LK"),
                  <<>>,
                  RdbRow(state_code, "06", "ST")>>] }

InitSiteVars ==
    /\ state_codes \in StateCodeLists
    /\ site_types \in SiteTypeSets
    /\ state_i = 1
    /\ dfs = <<>>
    /\ site_calls = <<>>
    /\ sl_out = <<>>
    /\ sl_pc = "states"
    /\ sl_ret = NotReturned

IdleSiteVars ==
    /\ state_codes = <<>>
    /\ site_types = {}
    /\ state_i = 1
    /\ dfs = <<>>
    /\ site_calls = <<>>
    /\ sl_out = <<>>
    /\ sl_pc = "idle"
    /\ sl_ret = NotReturned

\* lines 9-25: one pass of the region loop
SL_Region ==
    /\ sl_pc = "states"
    /\ state_i <= Len(state_codes)
    /\ \E response \in SiteResponses(state_codes[state_i]) :
          /\ dfs' = dfs \o RegionTables(response, site_types)
          /\ site_calls' = Append(site_calls,
                 [stateCd |-> state_codes[state_i], response |-> response])
    /\ state_i' = state_i + 1
    /\ UNCHANGED <<state_codes, site_types, sl_out, sl_pc, sl_ret>>
    /\ UNCHANGED <<matchVars, granuleVars, linkVars>>

\* lines 26-29
SL_ReturnTable ==
    /\ sl_pc = "states"
    /\ state_i > Len(state_codes)
    /\ dfs # <<>>
    /\ sl_out' = Append(sl_out, CountMessage(Len(Concat(dfs, 1))))
    /\ sl_ret' = Returned(Concat(dfs, 1))
    /\ sl_pc' = "done"
    /\ UNCHANGED <<state_codes, site_types, state_i, dfs, site_calls>>
    /\ UNCHANGED <<matchVars, granuleVars, linkVars>>

\* lines 30-32
SL_ReturnEmpty ==
    /\ sl_pc = "states"
    /\ state_i > Len(state_codes)
    /\ dfs = <<>>
    /\ sl_out' = Append(sl_out, NoSitesMessage)
    /\ sl_ret' = Returned(<<>>)
    /\ sl_pc' = "done"
    /\ UNCHANGED <<state_codes, site_types, state_i, dfs, site_calls>>
    /\ UNCHANGED <<matchVars, granuleVars, linkVars>>

NextSites ==
    \/ SL_Region
    \/ SL_ReturnTable
    \/ SL_ReturnEmpty

-----------------------------------------------------------------------------
(* Specifications, one per entry point *)

InitMatch == InitMatchVars /\ IdleGranuleVars /\ IdleLinkVars /\ IdleSiteVars
SpecMatch == InitMatch /\ [][NextMatch]_vars

InitGranules == IdleMatchVars /\ InitGranuleVars /\ IdleLinkVars /\ IdleSiteVars
SpecGranules == InitGranules /\ [][NextGranules]_vars

InitLinks == IdleMatchVars /\ IdleGranuleVars /\ InitLinkVars /\ IdleSiteVars
SpecLinks == InitLinks /\ [][NextLinks]_vars

InitSites == IdleMatchVars /\ IdleGranuleVars /\ IdleLinkVars /\ InitSiteVars
SpecSites == InitSites /\ [][NextSites]_vars

Init == InitMatch
Next == NextMatch
Spec == SpecMatch

-----------------------------------------------------------------------------
(* Properties of get_param_sites *)

NoData(response) ==
    response.status_code # 200 \/ DataLines(response.text, 1) = <<>>

RECURSIVE TablesOfCalls(_, _)
TablesOfCalls(calls, k) ==
    IF k > Len(calls) THEN <<>>
    ELSE RegionTables(calls[k].response, site_types) \o TablesOfCalls(calls, k + 1)

FailedRegions == { k \in 1..Len(site_calls) : NoData(site_calls[k].response) }
FailureMessages == { k \in 1..Len(sl_out) : sl_out[k] = NoSitesMessage }

(* C5: with several regions of which some answer non-200 or without data
   lines, the call still returns, the table holds exactly the filtered rows of
   the successful regions in region order, and a diagnostic is emitted for
   each region that failed or was empty. *)
C5_TableAndDiagnostics ==
    /\ sl_pc = "done" =>
          /\ Len(site_calls) = Len(state_codes)
          /\ sl_ret.value = Concat(TablesOfCalls(site_calls, 1), 1)
          /\ Cardinality(FailureMessages) >= Cardinality(FailedRegions)

-----------------------------------------------------------------------------
(* Properties of the link filter *)

IsHttpsLink(href) == StartsWith(href, txt_https \o txt_colon)

Wanted(href) ==
    IsHttpsLink(href) /\ EndsWith(href, txt_nc) /\ ~Contains(href, txt_dmrpp)

(* C9: every url kept in granule_urls is an https link, ends in .nc and does
   not carry .dmrpp, and every link with those three properties is kept. *)
C9_KeptLinksAreHttpsData ==
    granule_urls.returned =>
        /\ \A u \in Range(granule_urls.value) : Wanted(u)
        /\ \A k \in 1..Len(links) :
              Wanted(links[k].href) => links[k].href \in Range(granule_urls.value)

-----------------------------------------------------------------------------
(* Properties of get_site_granules and get_all_site_granules *)

IsLookup(c) == c.url = "collections.json"
IsSearch(c) == c.url = "granules.json"

LookupsOf(i)  == SelectSeq(cmr_calls, LAMBDA c : c.site_i = i /\ IsLookup(c))
SearchesOf(i) == SelectSeq(cmr_calls, LAMBDA c : c.site_i = i /\ IsSearch(c))

HasFeed(c) == "feed" \in DOMAIN c.response.body
EntriesOf(c) == IF HasFeed(c) THEN c.response.body.feed.entry ELSE <<>>
EmptyPage(c) == HasFeed(c) /\ c.response.body.feed.entry = <<>>

Finished(i) == i < site_i \/ gf_pc = "done"

(* C6: a non-200 response is "no data for this unit of work" in every stage;
   in particular a non-200 granule-search response leaves the site without
   granules and never raises an error that aborts the batch. *)
C6_Non200NeverAborts ==
    \A k \in 1..Len(cmr_calls) :
        (IsSearch(cmr_calls[k]) /\ cmr_calls[k].response.status_code # 200)
            => gf_pc # "error"

(* C7: for each site the granule searches carry page_num 1, 2, 3, ... with
   page_size 2000 and the same concept id, temporal string and "lon,lat"
   point; the page number advances exactly on a non-empty page; nothing is
   requested after an empty page, so k non-empty pages followed by an empty
   one make exactly k+1 requests and the loop has ended. *)
C7_Pagination ==
    \A i \in 1..Len(site_list) :
        LET S == SearchesOf(i)
            site == site_list[i]
        IN  /\ \A k \in 1..Len(S) :
                  /\ S[k].request.page_num = k
                  /\ S[k].request.page_size = 2000
                  /\ S[k].request.temporal = TemporalStr
                  /\ S[k].request.point = <<site.dec_long_va, ",", site.dec_lat_va>>
                  /\ S[k].request.collection_concept_id
                        = S[1].request.collection_concept_id
            /\ \A k \in 1..(Len(S) - 1) : HasFeed(S[k]) /\ ~EmptyPage(S[k])
            /\ (i = site_i /\ gf_pc = "pages") => page_num = Len(S) + 1
            /\ Finished(i) => Len(S) >= 1 /\ EmptyPage(S[Len(S)])
            /\ (Len(S) >= 1 /\ EmptyPage(S[Len(S)])) => Finished(i)

\* a site answered with two non-empty pages and then an empty one: 3 requests
C7_Witness ==
    \E i \in 1..Len(site_list) :
        /\ Finished(i)
        /\ Len(SearchesOf(i)) = 3
        /\ EmptyPage(SearchesOf(i)[3])

\* the page the service returned to site i's request for page p
PageOf(i, p) ==
    LET c == CHOOSE c \in Range(SearchesOf(i)) : c.request.page_num = p
    IN  EntriesOf(c)

RECURSIVE TaggedPages(_, _)
TaggedPages(i, p) ==
    IF p > Len(SearchesOf(i)) THEN <<>>
    ELSE [k \in 1..Len(PageOf(i, p)) |-> [site |-> i, entry |-> PageOf(i, p)[k]]]
         \o TaggedPages(i, p + 1)

\* the entries returned for sites 1..n: site order, page order, entry order
RECURSIVE TaggedEntries(_)
TaggedEntries(n) ==
    IF n = 0 THEN <<>> ELSE TaggedEntries(n - 1) \o TaggedPages(n, 1)

RECURSIVE ExpectedMessages(_)
ExpectedMessages(n) ==
    IF n = 0 THEN <<>>
    ELSE ExpectedMessages(n - 1)
         \o (IF EmptyPage(SearchesOf(n)[1])
             THEN <<NoGranulesMessage(site_list[n].site_no)>> ELSE <<>>)

Tagged(rec, tagged) ==
    LET site == site_list[tagged.site]
    IN  /\ rec.site_no = site.site_no
        /\ rec.station_nm = site.station_nm
        /\ rec.site_lat = site.dec_lat_va
        /\ rec.site_lon = site.dec_long_va
        /\ rec.datetime = (IF "time_start" \in DOMAIN tagged.entry
                           THEN tagged.entry.time_start ELSE NotAvailable)

NumFinished == IF gf_pc = "done" THEN Len(site_list) ELSE site_i - 1

IsPrefix(a, b) == Len(a) <= Len(b) /\ SubSeq(b, 1, Len(a)) = a

RecordsMatchEntries ==
    LET E == TaggedEntries(NumFinished)
    IN  /\ Len(all_granules) = Len(E)
        /\ \A k \in 1..Len(E) : Tagged(all_granules[k], E[k])
        /\ gf_out = ExpectedMessages(NumFinished)
        /\ gf_pc = "done" =>
              /\ gf_ret = Returned(all_granules)
              /\ \A i \in 1..Len(site_list) : Len(SearchesOf(i)) >= 1

(* C8: the list holds exactly one record per granule entry the service
   returned, tagged with the site that asked, in site, page and entry order,
   and only ever grows by appending; a site whose first page is empty adds
   nothing, prints "No granules found" (and only such a site does), and the
   later sites are still processed. *)
C8_OneRecordPerEntry ==
    /\ []RecordsMatchEntries
    /\ [][IsPrefix(all_granules, all_granules')]_vars

\* site 1 had an empty first page, site 2 two pages of entries after it
C8_Witness ==
    /\ gf_pc = "done"
    /\ Len(site_list) = 2
    /\ EmptyPage(SearchesOf(1)[1])
    /\ Len(gf_out) = 1
    /\ Len(SearchesOf(2)) = 3
    /\ Len(PageOf(2, 1)) = 2
    /\ Len(gf_ret.value) >= 3
    /\ gf_ret.value[1].datetime # gf_ret.value[2].datetime

(* C10 as claimed: one run over N >= 1 sites issues exactly one collection
   lookup, before every granule search, and every page of every site uses the
   id it resolved. *)
C10_OneLookupPerRun ==
    (gf_pc = "done" /\ Len(site_list) >= 1) =>
        /\ Len(SelectSeq(cmr_calls, IsLookup)) = 1
        /\ IsLookup(cmr_calls[1])
        /\ \A k \in 1..Len(cmr_calls) :
              IsSearch(cmr_calls[k]) =>
                  cmr_calls[k].request.collection_concept_id
                      = cmr_calls[1].response.body.feed.entry[1].id

(* C10 amended: the lookup is made once per site (once per get_site_granules
   call); it precedes every granule search of that site and every page of
   that site uses the id of the lookup's first entry; a lookup without an
   entry ends the run in an error and nothing is returned. *)
C10_OneLookupPerSite ==
    /\ \A i \in 1..Len(site_list) :
          /\ Len(LookupsOf(i)) = (IF Finished(i)
                                     \/ (i = site_i /\ gf_pc \in {"pages", "error"})
                                  THEN 1 ELSE 0)
          /\ \A k \in 1..Len(SearchesOf(i)) :
                SearchesOf(i)[k].request.collection_concept_id
                    = LookupsOf(i)[1].response.body.feed.entry[1].id
    /\ \A a, b \in 1..Len(cmr_calls) :
          (/\ cmr_calls[a].site_i = cmr_calls[b].site_i
           /\ IsLookup(cmr_calls[a])
           /\ IsSearch(cmr_calls[b])) => a < b
    /\ \A k \in 1..Len(cmr_calls) :
          (IsLookup(cmr_calls[k]) /\ EntriesOf(cmr_calls[k]) = <<>>)
              => (k = Len(cmr_calls) /\ gf_pc = "error")
    /\ gf_pc = "error" => gf_ret = NotReturned

\* two sites done: two lookups, each before its own site's pages
C10_Witness ==
    /\ gf_pc = "done"
    /\ Len(site_list) = 2
    /\ Len(SelectSeq(cmr_calls, IsLookup)) = 2
    /\ Len(LookupsOf(1)[1].response.body.feed.entry) = 2
    /\ Len(SearchesOf(1)) >= 2
    /\ Len(SearchesOf(2)) >= 2

=============================================================================
